---- MODULE Spec2Model ----
(***************************************************************************)
(* Model of src/index.js: the `main` function of the ECS run-task action.  *)
(*                                                                         *)
(* main is one async function.  Every `await` is a suspension point, so    *)
(* every action below is the code that runs from one resumption to the     *)
(* next await (the remote call and its answer are taken together: the      *)
(* program has a single thread of control and nothing runs in between).    *)
(*                                                                         *)
(* Text is modelled as a sequence of one-character strings, so that        *)
(* endsWith / replace / split / concatenation are computed, not assumed.   *)
(* An optional value (JavaScript undefined) is a set with at most one      *)
(* element: {} is undefined, {v} is the value v.                           *)
(***************************************************************************)
EXTENDS Integers, Sequences, FiniteSets, TLC

\* ------------------------------------------------------------------------
\* Bounds of the model
\* ------------------------------------------------------------------------

\* largest value of the task-stopped-wait-for-max-attempts input
MaxAttemptsBound == 3

\* longest list of override command fragments
MaxFrags == 3

\* longest override command fragment, in characters
MaxFragLen == 2

\* most calls of the log fetch function
MaxFetches == 3

\* longest list of override environment fragments
MaxEnvFrags == 2

\* longest override environment fragment, in characters
MaxEnvLen == 3

\* ------------------------------------------------------------------------
\* Text
\* ------------------------------------------------------------------------

Backslash == "\\"

\* the characters fragments are made of
Chars == {"a", Backslash}

RECURSIVE StringsUpTo(_)
StringsUpTo(n) ==
    IF n = 0 THEN {<<>>}
    ELSE LET S == StringsUpTo(n - 1)
         IN  S \cup {Append(s, c) : s \in {t \in S : Len(t) = n - 1}, c \in Chars}

RECURSIVE ListsUpTo(_, _)
ListsUpTo(S, n) ==
    IF n = 0 THEN {<<>>}
    ELSE LET L == ListsUpTo(S, n - 1)
         IN  L \cup {Append(l, s) : l \in {t \in L : Len(t) = n - 1}, s \in S}

\* JavaScript null, as an array element (no text equals it: "null" is not in Chars)
Null == <<"null">>

\* JavaScript undefined / a present value
undefined == {}
Some(v) == {v}
ValueOf(o) == CHOOSE v \in o : TRUE

\* x.endsWith('\\')
EndsWithMarker(x) == Len(x) > 0 /\ x[Len(x)] = Backslash

\* x.replace(/\\$/, ''): removes the one backslash at the end, if any
StripMarker(x) == IF EndsWithMarker(x) THEN SubSeq(x, 1, Len(x) - 1) ELSE x

\* ------------------------------------------------------------------------
\* Override builder (lines 60-105)
\* ------------------------------------------------------------------------

\* a slip of the fold: the predecessor is kept instead of being set to null
MapCallbackKeepsPredecessor(arr, i) ==
    LET x == arr[i] IN
    IF EndsWithMarker(x)
    THEN LET stripped == [arr EXCEPT ![i] = StripMarker(x)] IN
         IF Len(arr) # i
         THEN [stripped EXCEPT ![i + 1] = stripped[i] \o stripped[i + 1]]
         ELSE stripped
    ELSE arr

\* the callback of overrideContainerCommand.map, called for index i (1-based
\* here) on the array arr, which it changes in place
MapCallback(arr, i) ==
    LET x == arr[i] IN
    IF EndsWithMarker(x)
    THEN LET stripped == [arr EXCEPT ![i] = StripMarker(x)] IN
         IF Len(arr) # i
         THEN [stripped EXCEPT ![i + 1] = stripped[i] \o stripped[i + 1],
                               ![i] = Null]
         ELSE stripped
    ELSE arr

\* Array.prototype.map visits the indices in increasing order and reads each
\* element when it visits it, so it sees what earlier callbacks wrote
RECURSIVE MapFrom(_, _)
MapFrom(arr, i) ==
    IF i > Len(arr) THEN arr ELSE MapFrom(MapCallback(arr, i), i + 1)

\* the truthiness test of filter(x => x): null and the empty string are falsy
Truthy(x) == x # Null /\ x # <<>>

\* parsedCommand, line 85
ParsedCommand(arr) == SelectSeq(MapFrom(arr, 1), Truthy)


\* x.split(/=(.*)/): parts[0] is the text before the first '=', parts[1] the
\* text after it, undefined when x has no '='
FirstEq(x) ==
    IF \E k \in 1..Len(x) : x[k] = "="
    THEN CHOOSE k \in 1..Len(x) : x[k] = "=" /\ \A j \in 1..(k - 1) : x[j] # "="
    ELSE 0

\* the characters `.` does not match in a regular expression (a fragment has
\* no "\n": the input was split on it)
LineTerminators == {"\n", "\r"}

\* the last position (.*) reaches when it starts after position k: it stops
\* in front of the first line terminator
EndOfDotStar(x, k) ==
    CHOOSE j \in k..Len(x) :
        /\ \A i \in (k + 1)..j : x[i] \notin LineTerminators
        /\ j < Len(x) => x[j + 1] \in LineTerminators

\* name: parts[0], value: parts[1] of x.split(/=(.*)/), lines 94-98
SplitEnv(x) ==
    IF FirstEq(x) = 0
    THEN [name |-> x, value |-> undefined]
    ELSE [name  |-> SubSeq(x, 1, FirstEq(x) - 1),
          value |-> Some(SubSeq(x, FirstEq(x) + 1, EndOfDotStar(x, FirstEq(x))))]

\* overrides.environment, lines 93-99
ParsedEnvironment(env) == [k \in 1..Len(env) |-> SplitEnv(env[k])]

\* the container override of lines 61-100, for a non-empty override-container
Overrides(container, command, environment) ==
    [name        |-> container,
     command     |-> IF Len(command) # 0 THEN Some(ParsedCommand(command)) ELSE undefined,
     environment |-> IF Len(environment) # 0 THEN Some(ParsedEnvironment(environment))
                     ELSE undefined]

\* a slip of the request: two task instances are asked for
TaskRequestParamsCountTwo(container, command, environment) ==
    [count      |-> 2,
     launchType |-> "FARGATE",
     overrides  |-> IF container # ""
                    THEN Some(<<Overrides(container, command, environment)>>)
                    ELSE undefined]

\* taskRequestParams as sent, lines 45-57 and 102-104 (cluster, task definition
\* and network configuration are passed through unchanged and left out)
TaskRequestParams(container, command, environment) ==
    [count      |-> 1,
     launchType |-> "FARGATE",
     overrides  |-> IF container # ""
                    THEN Some(<<Overrides(container, command, environment)>>)
                    ELSE undefined]

\* ------------------------------------------------------------------------
\* State
\* ------------------------------------------------------------------------

VARIABLES
    pc,                           \* where main is suspended
    tailLogs,                     \* input tail-logs
    overrideContainer,            \* input override-container ("" when not given)
    commandLines,                 \* what getMultilineInput returned for override-container-command
    overrideContainerCommand,     \* the same array, which the fold changes in place
    overrideContainerEnvironment, \* input override-container-environment
    taskStoppedWaitForMaxAttempts,\* input task-stopped-wait-for-max-attempts, parsed
    taskRequestParams,            \* the request built, once built
    calls,                        \* the remote calls issued so far, in order
    waiters,                      \* the $waiter settings of the waitFor calls made, in order
    runningWait,                  \* state of the tasksRunning wait
    stoppedWait,                  \* state of the tasksStopped wait
    taskArn,
    taskId,
    outputs,                      \* core.setOutput values
    failed,                       \* core.setFailed was called
    failureMessage,               \* the message it was called with, as reported
    logFilterStream,
    logOutput,
    describedTask,                \* tasks[0] of the final description
    taskDef,                      \* {} until describeTaskDefinition is answered, then {answer}
    examined,                     \* containers the some() callback was called for (line 151)
    selectedContainer,            \* index of the container a stream was created for (line 161), or 0
    logStore,                     \* the events the log service holds for the stream
    emitted,                      \* the events written by console.log (line 23), in order
    diagnostics                   \* the console.error lines (line 25): which fetch failed

vars == <<pc, tailLogs, overrideContainer, commandLines, overrideContainerCommand,
          overrideContainerEnvironment, taskStoppedWaitForMaxAttempts,
          taskRequestParams, calls, waiters, runningWait, stoppedWait, taskArn,
          taskId, outputs, failed, failureMessage, logFilterStream, logOutput,
          describedTask, taskDef, examined, selectedContainer, logStore, emitted,
          diagnostics>>

discoveryVars == <<taskDef, examined, selectedContainer>>

tailVars == <<logStore, emitted, diagnostics>>

inputVars == <<tailLogs, overrideContainer, commandLines,
               overrideContainerEnvironment, taskStoppedWaitForMaxAttempts>>

OutputNames == {"task-arn", "task-id", "log-output"}

\* core.setOutput(name, value)
SetOutput(o, name, value) == [o EXCEPT ![name] = Some(value)]

\* the message core.setFailed reports: an undefined argument is reported as
\* the empty text
CommandValue(message) == IF message = undefined THEN "" ELSE ValueOf(message)

\* number of calls issued so far with the given operation and phase
CallsOf(op, phase) ==
    Cardinality({k \in 1..Len(calls) : calls[k].op = op /\ calls[k].phase = phase})


\* ------------------------------------------------------------------------
\* What the remote services can answer
\* ------------------------------------------------------------------------

\* task ARNs, as their '/'-separated segments
Arns == {<<"arn:aws:ecs:task", "t1">>, <<"arn:aws:ecs:task", "c1", "t2">>}

\* taskArn.split('/').pop()
TaskIdOf(arn) == arn[Len(arn)]

\* container definitions of a task definition
NoLogs(n)     == [name |-> n, logConfiguration |-> undefined]
AwsLogs(n, p) == [name |-> n,
                  logConfiguration |-> Some([logDriver |-> "awslogs", prefix |-> p])]
OtherLogs(n)  == [name |-> n,
                  logConfiguration |-> Some([logDriver |-> "json-file", prefix |-> ""])]

\* answers of describeTaskDefinition: the taskDefinition member, when present,
\* with its containerDefinitions, when present
TaskDefinitions ==
    { undefined,
      Some([containerDefinitions |-> undefined]),
      Some([containerDefinitions |-> Some(<<NoLogs("app")>>)]),
      Some([containerDefinitions |-> Some(<<OtherLogs("side"), NoLogs("app")>>)]),
      Some([containerDefinitions |-> Some(<<AwsLogs("app", "ecs")>>)]),
      Some([containerDefinitions |-> Some(<<AwsLogs("side", "ecs"), NoLogs("app")>>)]),
      Some([containerDefinitions |-> Some(<<NoLogs("side"), AwsLogs("app", "p")>>)]),
      Some([containerDefinitions |-> Some(<<AwsLogs("side", "s"), AwsLogs("app", "p"),
                                            AwsLogs("db", "d")>>)]) }

ExitCodes == {0, 1, 137}

StoppedReasons == {"Essential container in task exited"}

\* tasks[0] of the final description: the first container's exit code and the
\* stopped reason, each possibly absent
TaskDescriptions ==
    [exitCode      : {undefined} \cup {Some(c) : c \in ExitCodes},
     stoppedReason : {undefined} \cup {Some(r) : r \in StoppedReasons}]

\* seconds since the epoch at the time of the call
Clock == {1700000000, 1700000006}

\* ------------------------------------------------------------------------
\* Waiters (lines 120-137)
\* ------------------------------------------------------------------------

\* seconds between two polls
WaiterDelay == 6

\* a slip of the second wait: a budget of its own
WaiterSettingsOwnBudget(state) ==
    [state       |-> state,
     delay       |-> WaiterDelay,
     maxAttempts |-> IF state = "tasksStopped"
                     THEN taskStoppedWaitForMaxAttempts + 1
                     ELSE taskStoppedWaitForMaxAttempts]

\* the $waiter settings passed to ecs.waitFor(state, ...)
WaiterSettings(state) ==
    [state       |-> state,
     delay       |-> WaiterDelay,
     maxAttempts |-> taskStoppedWaitForMaxAttempts]

\* a slip of the budget: one poll too many
WaiterAfterPollOffByOne(settings, polls, answer) ==
    CASE answer = "matched"           -> "ok"
      [] polls > settings.maxAttempts -> "timeout"
      [] OTHER                        -> "polling"

\* the waiter after one more poll, polls being the number of polls made
\* including this one: it resolves when the awaited state is seen, rejects
\* when the budget is used up, and polls again otherwise
WaiterAfterPoll(settings, polls, answer) ==
    CASE answer = "matched"            -> "ok"
      [] polls >= settings.maxAttempts -> "timeout"
      [] OTHER                         -> "polling"

\* the message of the error the waiter rejects with
WaiterMessage(state) == "Resource is not in the state " \o state


\* ------------------------------------------------------------------------
\* Log destination discovery (lines 13-27, 148-189)
\* ------------------------------------------------------------------------

\* pollLogEvents(group, stream, startTime) returns an async function that
\* would fetch the log events when called (names are '/'-joined texts, given
\* as their segments)
pollLogEvents(logGroupName, logStreamName, startTime) ==
    [kind          |-> "function",
     logGroupName  |-> logGroupName,
     logStreamName |-> logStreamName,
     startTime     |-> startTime]

\* the methods a value of that kind has: a function has those of
\* Function.prototype, and neither `on` nor `close`
HasMethod(value, method) ==
    value.kind = "function" /\ method \in {"call", "apply", "bind"}

\* a slip of the search: the log configuration is not looked at
MatchesWithoutLogConfiguration(container) ==
    ~(overrideContainer # "" /\ container.name # overrideContainer)

\* a slip of the search: the override container name is not looked at
MatchesIgnoringOverride(container) ==
    /\ container.logConfiguration # undefined
    /\ ValueOf(container.logConfiguration).logDriver = "awslogs"

\* the callback of containerDefinitions.some reaches line 159 and finds an
\* awslogs configuration there
Matches(container) ==
    /\ ~(overrideContainer # "" /\ container.name # overrideContainer)
    /\ container.logConfiguration # undefined
    /\ ValueOf(container.logConfiguration).logDriver = "awslogs"

\* index of the container at which some() stops, 0 when it runs to the end
SelectedContainer(containers) ==
    IF \E k \in 1..Len(containers) : Matches(containers[k])
    THEN CHOOSE k \in 1..Len(containers) :
            /\ Matches(containers[k])
            /\ \A j \in 1..(k - 1) : ~Matches(containers[j])
    ELSE 0

\* [prefix, container.name, taskId].join('/'), as its segments
LogStreamName(container, id) ==
    <<ValueOf(container.logConfiguration).prefix, container.name, id>>

\* taskDef.containerDefinitions when both are present (line 149)
ContainersOf(definition) ==
    IF definition # undefined /\ ValueOf(definition).containerDefinitions # undefined
    THEN ValueOf(ValueOf(definition).containerDefinitions)
    ELSE <<>>

\* ------------------------------------------------------------------------
\* Initial states
\* ------------------------------------------------------------------------

MainCommands == ListsUpTo(StringsUpTo(1), 2)

MainEnvironments == { <<>>, << <<"K", "=", "v">> >> }

\* the characters environment fragments are made of
EnvChars == {"K", "=", "v", "\r"}

RECURSIVE EnvStringsUpTo(_)
EnvStringsUpTo(n) ==
    IF n = 0 THEN {<<>>}
    ELSE LET S == EnvStringsUpTo(n - 1)
         IN  S \cup {Append(s, c) : s \in {t \in S : Len(t) = n - 1}, c \in EnvChars}

\* input.trim(): a fragment neither starts nor ends with white space
Trimmed(x) == x = <<>> \/ (x[1] # "\r" /\ x[Len(x)] # "\r")

EnvFragments(n) == {x \in EnvStringsUpTo(n) : Trimmed(x)}

InitRest ==
    /\ pc = "start"
    /\ overrideContainerCommand = commandLines
    /\ taskRequestParams = undefined
    /\ calls = <<>>
    /\ waiters = <<>>
    /\ runningWait = "idle"
    /\ stoppedWait = "idle"
    /\ taskArn = undefined
    /\ taskId = undefined
    /\ outputs = [n \in OutputNames |-> undefined]
    /\ failed = FALSE
    /\ failureMessage = ""
    /\ logFilterStream = undefined
    /\ logOutput = ""
    /\ describedTask = undefined
    /\ taskDef = {}
    /\ examined = 0
    /\ selectedContainer = 0
    /\ logStore = {}
    /\ emitted = <<>>
    /\ diagnostics = <<>>

\* the inputs as read at lines 31-42; the attempt budget is a positive
\* integer, and a fragment can be the empty text (getMultilineInput drops
\* empty lines before it trims the remaining ones)
Init ==
    /\ tailLogs \in BOOLEAN
    /\ overrideContainer \in {"", "app"}
    /\ commandLines \in MainCommands
    /\ overrideContainerEnvironment \in MainEnvironments
    /\ taskStoppedWaitForMaxAttempts \in 1..MaxAttemptsBound
    /\ InitRest

\* ------------------------------------------------------------------------
\* main
\* ------------------------------------------------------------------------

\* a slip of the catch block: the error is swallowed
CatchSwallows(message) ==
    /\ failed' = failed
    /\ failureMessage' = failureMessage
    /\ pc' = "done"

\* the catch block, lines 201-204
Catch(message) ==
    /\ failed' = TRUE
    /\ failureMessage' = message
    /\ pc' = "done"

\* lines 44-105: the request is built; the fold writes into the array
BuildRequest ==
    /\ taskRequestParams' =
          Some(TaskRequestParams(overrideContainer, overrideContainerCommand,
                                 overrideContainerEnvironment))
    /\ overrideContainerCommand' =
          IF overrideContainer # "" /\ Len(overrideContainerCommand) # 0
          THEN MapFrom(overrideContainerCommand, 1)
          ELSE overrideContainerCommand

\* a slip of the waits: a rejected wait does not stop main
AfterWaitAlwaysOn(result, next) == next

\* where main goes when a wait has ended: on to the next statement when
\* waitFor resolved, into the catch block when it rejected
AfterWait(result, next) == IF result = "ok" THEN next ELSE "catch"

\* lines 30-121: inputs are read, the request is built and sent, and on an
\* answer with a task the outputs are set and the running-wait is started
RunTask ==
    /\ pc = "start"
    /\ BuildRequest
    /\ calls' = Append(calls, [op |-> "RunTask", phase |-> "launch"])
    /\ \/ \E arn \in Arns :
            /\ taskArn' = Some(arn)
            /\ taskId' = Some(TaskIdOf(arn))
            /\ outputs' = SetOutput(SetOutput(outputs, "task-arn", arn),
                                    "task-id", TaskIdOf(arn))
            /\ waiters' = Append(waiters, WaiterSettings("tasksRunning"))
            /\ runningWait' = "polling"
            /\ pc' = "waitRunning"
            /\ UNCHANGED <<failed, failureMessage>>
       \/ \E message \in {"RunTask failed",
                          "Cannot read properties of undefined (reading 'taskArn')"} :
            /\ Catch(message)
            /\ UNCHANGED <<taskArn, taskId, outputs, waiters, runningWait>>
    /\ UNCHANGED <<inputVars, stoppedWait, logFilterStream, logOutput, describedTask,
                   discoveryVars, tailVars>>

\* one poll of the tasksRunning waiter, lines 122-129, and what follows when
\* it ends
PollRunning ==
    /\ pc = "waitRunning"
    /\ calls' = Append(calls, [op |-> "DescribeTasks", phase |-> "running"])
    /\ \E answer \in {"matched", "unmatched"} :
         LET settings == waiters[Len(waiters)]
             result   == WaiterAfterPoll(settings, CallsOf("DescribeTasks", "running") + 1,
                                         answer)
         IN  /\ runningWait' = result
             /\ IF result = "polling"
                THEN UNCHANGED <<pc, failed, failureMessage, waiters, stoppedWait>>
                ELSE IF AfterWait(result, "waitStopped") = "waitStopped"
                THEN /\ waiters' = Append(waiters, WaiterSettings("tasksStopped"))
                     /\ stoppedWait' = "polling"
                     /\ pc' = "waitStopped"
                     /\ UNCHANGED <<failed, failureMessage>>
                ELSE /\ Catch(WaiterMessage(settings.state))
                     /\ UNCHANGED <<waiters, stoppedWait>>
    /\ UNCHANGED <<inputVars, overrideContainerCommand, taskRequestParams, taskArn,
                   taskId, outputs, logFilterStream, logOutput, describedTask,
                   discoveryVars, tailVars>>

\* a slip of the log path: the task definition is looked up in every run
AfterStoppedAlwaysLooksUp(tail) == "describeTaskDefinition"

\* where main goes when the stopped-wait has resolved, lines 140-143 and
\* 183: with tail-logs to the task definition lookup, without it past the
\* whole log path, logFilterStream being null
AfterStopped(tail) == IF tail THEN "describeTaskDefinition" ELSE "describeTasks"

\* one poll of the tasksStopped waiter, lines 130-137, and what follows when
\* it ends: lines 139-145 and, without tail-logs, lines 182-193
PollStopped ==
    /\ pc = "waitStopped"
    /\ calls' = Append(calls, [op |-> "DescribeTasks", phase |-> "stopped"])
    /\ \E answer \in {"matched", "unmatched"} :
         LET settings == waiters[Len(waiters)]
             result   == WaiterAfterPoll(settings, CallsOf("DescribeTasks", "stopped") + 1,
                                         answer)
         IN  /\ stoppedWait' = result
             /\ IF result = "polling"
                THEN UNCHANGED <<pc, failed, failureMessage>>
                ELSE IF AfterWait(result, "logs") = "logs"
                THEN /\ pc' = AfterStopped(tailLogs)
                     /\ UNCHANGED <<failed, failureMessage>>
                ELSE Catch(WaiterMessage(settings.state))
    /\ UNCHANGED <<inputVars, overrideContainerCommand, taskRequestParams, waiters,
                   runningWait, taskArn, taskId, outputs, logFilterStream, logOutput,
                   describedTask, discoveryVars, tailVars>>


\* lines 145-193: the task definition is answered; the containers are
\* searched; a stream that was created is set up, closed and exported
DescribeTaskDefinition ==
    /\ pc = "describeTaskDefinition"
    /\ calls' = Append(calls, [op |-> "DescribeTaskDefinition", phase |-> "logs"])
    /\ \E answer \in TaskDefinitions, now \in Clock :
            LET containers == ContainersOf(answer)
                k          == SelectedContainer(containers)
                stream     == pollLogEvents(<<"log-group-name">>, <<"log-stream-name">>, now)
            IN  /\ taskDef' = {answer}
                /\ selectedContainer' = k
                /\ examined' = IF k = 0 THEN Len(containers) ELSE k
                /\ IF k = 0
                   THEN \* nothing found: logFilterStream is still null at line 183
                     /\ pc' = "describeTasks"
                     /\ UNCHANGED <<logFilterStream, outputs, failed, failureMessage>>
                   ELSE
                     /\ logFilterStream' = Some(stream)
                     /\ IF ~HasMethod(stream, "on")
                        THEN /\ Catch("logFilterStream.on is not a function")
                             /\ UNCHANGED outputs
                        ELSE IF ~HasMethod(stream, "close")
                        THEN /\ Catch("logFilterStream.close is not a function")
                             /\ UNCHANGED outputs
                        ELSE /\ outputs' = SetOutput(outputs, "log-output", logOutput)
                             /\ pc' = "describeTasks"
                             /\ UNCHANGED <<failed, failureMessage>>
    /\ UNCHANGED <<inputVars, overrideContainerCommand, taskRequestParams, waiters,
                   runningWait, stoppedWait, taskArn, taskId, logOutput, describedTask,
                   tailVars>>

\* a slip of the exit code check: an absent exit code passes
ExitCodeFailedUnlessAbsent(task) == task.exitCode \notin {undefined, Some(0)}

\* describedTask.tasks[0].containers[0].exitCode !== 0, line 197
ExitCodeFailed(task) == task.exitCode # Some(0)

\* a slip of the message: a fallback text replaces every stopped reason
TaskFailureMessageGeneric(task) == "Task failed"

\* the message handed to core.setFailed at line 199, as reported
TaskFailureMessage(task) == CommandValue(task.stoppedReason)

\* lines 194-200: the final description is answered and the exit code read
DescribeTasks ==
    /\ pc = "describeTasks"
    /\ calls' = Append(calls, [op |-> "DescribeTasks", phase |-> "final"])
    /\ \E task \in TaskDescriptions :
            /\ describedTask' = Some(task)
            /\ IF ExitCodeFailed(task)
               THEN /\ failed' = TRUE
                    /\ failureMessage' = TaskFailureMessage(task)
               ELSE UNCHANGED <<failed, failureMessage>>
            /\ pc' = "done"
    /\ UNCHANGED <<inputVars, overrideContainerCommand, taskRequestParams, waiters,
                   runningWait, stoppedWait, taskArn, taskId, outputs, logFilterStream,
                   logOutput, discoveryVars, tailVars>>

Next ==
    \/ RunTask
    \/ PollRunning
    \/ PollStopped
    \/ DescribeTaskDefinition
    \/ DescribeTasks

Spec == Init /\ [][Next]_vars

\* ------------------------------------------------------------------------
\* The override builder alone, over every bounded list of fragments
\* ------------------------------------------------------------------------

InitCmd ==
    /\ tailLogs = FALSE
    /\ overrideContainer = "app"
    /\ commandLines \in ListsUpTo(StringsUpTo(MaxFragLen), MaxFrags)
    /\ overrideContainerEnvironment = <<>>
    /\ taskStoppedWaitForMaxAttempts = 1
    /\ InitRest

\* lines 44-105 on their own
BuildOverrides ==
    /\ pc = "start"
    /\ taskRequestParams = undefined
    /\ BuildRequest
    /\ UNCHANGED <<pc, inputVars, calls, waiters, runningWait, stoppedWait, taskArn,
                   taskId, outputs, failed, failureMessage, logFilterStream, logOutput,
                   describedTask, discoveryVars, tailVars>>

NextCmd == BuildOverrides

SpecCmd == InitCmd /\ [][NextCmd]_vars


\* ------------------------------------------------------------------------
\* Properties
\* ------------------------------------------------------------------------

Polls(phase) == CallsOf("DescribeTasks", phase)

LaunchFailed == pc = "done" /\ taskArn = undefined

TaskExitFailed ==
    describedTask # undefined /\ ValueOf(describedTask).exitCode # Some(0)

\* C1: when main has ended, a failure has been reported exactly when the
\* launch failed, the running-wait or the stopped-wait timed out, or the
\* first container's exit code is nonzero or absent.
C1_FailureIffCause ==
    pc = "done" =>
        (failed <=> \/ LaunchFailed
                    \/ runningWait = "timeout"
                    \/ stoppedWait = "timeout"
                    \/ TaskExitFailed)

\* C2: when main has ended after a launch that returned a task, task-arn and
\* task-id are set and, with tail-logs enabled, log-output is set too,
\* however the run ended.
C2_OutputsAlwaysSet ==
    (pc = "done" /\ taskArn # undefined) =>
        /\ outputs["task-arn"] # undefined
        /\ outputs["task-id"] # undefined
        /\ tailLogs => outputs["log-output"] # undefined

\* C3: at most one run request is ever submitted, what is submitted asks for
\* one task instance, and nothing is submitted again once a failure is
\* reported.
C3_OneRunRequest ==
    /\ CallsOf("RunTask", "launch") <= 1
    /\ (CallsOf("RunTask", "launch") = 1) <=> (taskRequestParams # undefined)
    /\ \A request \in taskRequestParams : request.count = 1
    /\ \A k \in 2..Len(calls) : calls[k].op # "RunTask"

C3_Witness ==
    /\ pc = "done"
    /\ failed
    /\ stoppedWait = "timeout"
    /\ CallsOf("RunTask", "launch") = 1

Rank(call) ==
    CASE call.phase = "launch"  -> 1
      [] call.phase = "running" -> 2
      [] call.phase = "stopped" -> 3
      [] call.phase = "logs"    -> 4
      [] call.phase = "final"   -> 5

\* C4: the remote calls come in the order submit, running-wait polls,
\* stopped-wait polls, final describe; a stopped-wait poll is issued only
\* when the running-wait has resolved, and the final description is asked
\* for only when the stopped-wait has resolved.
C4_PhaseOrder ==
    /\ \A i, j \in 1..Len(calls) : i < j => Rank(calls[i]) <= Rank(calls[j])
    /\ Polls("running") > 0 => CallsOf("RunTask", "launch") = 1
    /\ Polls("stopped") > 0 => runningWait = "ok"
    /\ Polls("final") > 0 => stoppedWait = "ok"
    /\ Polls("final") <= 1

C4_Witness ==
    /\ pc = "done"
    /\ Polls("running") >= 2
    /\ Polls("stopped") >= 2
    /\ Polls("final") = 1

NothingAfterWait ==
    /\ CallsOf("DescribeTaskDefinition", "logs") = 0
    /\ \A k \in 1..Len(calls) : calls[k].op # "GetLogEvents"
    /\ logFilterStream = undefined
    /\ outputs["log-output"] = undefined
    /\ Polls("final") = 0
    /\ describedTask = undefined

\* C5: once the running-wait has timed out a failure is reported, main has
\* ended, and no stopped-wait poll, task-definition lookup, log fetch, log
\* flush or final describe has happened; once the stopped-wait has timed
\* out the same holds, stopped-wait polls aside.
C5_TimeoutAborts ==
    /\ runningWait = "timeout" =>
          /\ failed
          /\ pc = "done"
          /\ stoppedWait = "idle"
          /\ Polls("stopped") = 0
          /\ NothingAfterWait
    /\ stoppedWait = "timeout" =>
          /\ failed
          /\ pc = "done"
          /\ NothingAfterWait

C5_Witness ==
    /\ runningWait = "timeout"
    /\ tailLogs
    /\ pc = "done"
    /\ Polls("running") = taskStoppedWaitForMaxAttempts

\* C6: once the task has been re-described, no failure is reported exactly
\* when the first container's exit code is 0.
C6_SuccessIffExitZero ==
    describedTask # undefined =>
        /\ pc = "done"
        /\ (~failed) <=> (ValueOf(describedTask).exitCode = Some(0))

C6_Witness ==
    /\ describedTask # undefined
    /\ ValueOf(describedTask).exitCode = undefined
    /\ failed

ReconcilerFailed == describedTask # undefined /\ failed

\* C7 as claimed: a task failure is reported with the stopped reason when
\* there is one, and with a non-empty fallback message when there is none.
C7_MessageOrFallback ==
    ReconcilerFailed =>
        LET reason == ValueOf(describedTask).stoppedReason
        IN  /\ reason # undefined => failureMessage = ValueOf(reason)
            /\ reason = undefined => failureMessage # ""

\* C7, amended: a task failure is reported with the stopped reason when
\* there is one; when there is none nothing is put in its place and the
\* failure is reported with an empty message.
C7_MessageIsStoppedReason ==
    ReconcilerFailed =>
        LET reason == ValueOf(describedTask).stoppedReason
        IN  /\ reason # undefined => failureMessage = ValueOf(reason)
            /\ reason = undefined => failureMessage = ""

C7_Witness ==
    /\ ReconcilerFailed
    /\ ValueOf(describedTask).exitCode = Some(137)
    /\ ValueOf(describedTask).stoppedReason # undefined
    /\ failureMessage = "Essential container in task exited"

\* C8: while no poll of the running-wait has seen the running state, the
\* wait goes on as long as fewer than maxAttempts polls were made and has
\* timed out when exactly maxAttempts were; the stopped-wait is bounded the
\* same way, and both waits are started with maxAttempts and a delay of 6.
C8_ExactBudget ==
    /\ runningWait = "polling" => Polls("running") < taskStoppedWaitForMaxAttempts
    /\ runningWait = "timeout" => Polls("running") = taskStoppedWaitForMaxAttempts
    /\ stoppedWait = "polling" => Polls("stopped") < taskStoppedWaitForMaxAttempts
    /\ stoppedWait = "timeout" => Polls("stopped") = taskStoppedWaitForMaxAttempts
    /\ \A k \in 1..Len(waiters) :
          /\ waiters[k].delay = 6
          /\ waiters[k].maxAttempts = taskStoppedWaitForMaxAttempts
    /\ runningWait # "idle" => Len(waiters) >= 1 /\ waiters[1].state = "tasksRunning"
    /\ stoppedWait # "idle" => Len(waiters) = 2 /\ waiters[2].state = "tasksStopped"

C8_Witness ==
    /\ taskStoppedWaitForMaxAttempts = 3
    /\ runningWait = "timeout"
    /\ Polls("running") = 3
    /\ failed

\* the fragments merged as the claim describes: carry is the text of the
\* fragments consumed so far, waiting to go in front of the next one
RECURSIVE Tokens(_, _)
Tokens(frags, carry) ==
    IF frags = <<>> THEN <<>>
    ELSE LET cur == carry \o Head(frags) IN
         IF EndsWithMarker(cur) /\ Tail(frags) # <<>>
         THEN Tokens(Tail(frags), SubSeq(cur, 1, Len(cur) - 1))
         ELSE IF EndsWithMarker(cur)
         THEN <<SubSeq(cur, 1, Len(cur) - 1)>>
         ELSE <<cur>> \o Tokens(Tail(frags), <<>>)

NonEmpty(x) == x # <<>>

\* the command of the container override that was built
EmittedCommand == ValueOf(ValueOf(ValueOf(taskRequestParams).overrides)[1].command)

CommandEmitted ==
    /\ taskRequestParams # undefined
    /\ overrideContainer # ""
    /\ Len(commandLines) # 0

C10_NoMarkerUnchanged ==
    (CommandEmitted /\ \A k \in 1..Len(commandLines) : ~EndsWithMarker(commandLines[k]))
        => EmittedCommand = commandLines


\* ------------------------------------------------------------------------
\* The override builder alone, over every bounded list of environment
\* fragments
\* ------------------------------------------------------------------------

InitEnv ==
    /\ tailLogs = FALSE
    /\ overrideContainer = "app"
    /\ commandLines = <<>>
    /\ overrideContainerEnvironment \in ListsUpTo(EnvFragments(MaxEnvLen), MaxEnvFrags)
    /\ taskStoppedWaitForMaxAttempts = 1
    /\ InitRest

NextEnv == BuildOverrides

SpecEnv == InitEnv /\ [][NextEnv]_vars

\* the environment of the container override that was built
EmittedEnvironment ==
    ValueOf(ValueOf(ValueOf(taskRequestParams).overrides)[1].environment)

EnvironmentEmitted ==
    /\ taskRequestParams # undefined
    /\ overrideContainer # ""
    /\ Len(overrideContainerEnvironment) # 0

\* C11: the environment emitted has one entry per fragment, in input order,
\* repeated names included; for a fragment with a '=', the name is the text
\* before the first '=' and the value is everything after it.
C11_SplitOnFirstEq ==
    EnvironmentEmitted =>
        /\ Len(EmittedEnvironment) = Len(overrideContainerEnvironment)
        /\ \A k \in 1..Len(overrideContainerEnvironment) :
              LET x == overrideContainerEnvironment[k] IN
              FirstEq(x) # 0 =>
                 /\ EmittedEnvironment[k].name = SubSeq(x, 1, FirstEq(x) - 1)
                 /\ EmittedEnvironment[k].value = Some(SubSeq(x, FirstEq(x) + 1, Len(x)))


\* ------------------------------------------------------------------------
\* The log fetch function alone (lines 13-27).  main never calls the function
\* pollLogEvents returns; here it is called, up to MaxFetches times, against
\* a log service whose stream only grows.
\* ------------------------------------------------------------------------

\* the log events the service can hold
Events == [timestamp : {1700000000, 1700000006, 1700000012}, message : {"line"}]

RECURSIVE InTimeOrder(_)
InTimeOrder(S) ==
    IF S = {} THEN <<>>
    ELSE LET first == CHOOSE e \in S : \A f \in S : e.timestamp <= f.timestamp
         IN  <<first>> \o InTimeOrder(S \ {first})

\* the answer to GetLogEventsCommand: the events of the stream from startTime on
GetLogEvents(store, startTime) ==
    InTimeOrder({e \in store : e.timestamp >= startTime})

\* a slip of the fetch: the error is thrown on
OnFetchErrorThrown == "thrown"

\* what the function does with a failed request, lines 24-26: it writes the
\* error to console.error and returns
OnFetchError == "logged"

InitTail ==
    /\ tailLogs = TRUE
    /\ overrideContainer = ""
    /\ commandLines = <<>>
    /\ overrideContainerCommand = <<>>
    /\ overrideContainerEnvironment = <<>>
    /\ taskStoppedWaitForMaxAttempts = 1
    /\ pc = "start"
    /\ taskRequestParams = undefined
    /\ calls = <<>>
    /\ waiters = <<>>
    /\ runningWait = "idle"
    /\ stoppedWait = "idle"
    /\ taskArn = undefined
    /\ taskId = undefined
    /\ outputs = [n \in OutputNames |-> undefined]
    /\ failed = FALSE
    /\ failureMessage = ""
    /\ logFilterStream \in
          {Some(pollLogEvents(<<"log-group-name">>, <<"log-stream-name">>, now)) :
              now \in Clock}
    /\ logOutput = ""
    /\ describedTask = undefined
    /\ taskDef = {}
    /\ examined = 0
    /\ selectedContainer = 0
    /\ logStore = {}
    /\ emitted = <<>>
    /\ diagnostics = <<>>

\* one call of the function held in logFilterStream: the request is made
\* with the startTime the function was created with; the events answered
\* are written by console.log, a failure by console.error
FetchLogEvents ==
    /\ logFilterStream # undefined
    /\ CallsOf("GetLogEvents", "tail") < MaxFetches
    /\ calls' = Append(calls, [op |-> "GetLogEvents", phase |-> "tail"])
    /\ \/ \E new \in SUBSET (Events \ logStore) :
            /\ logStore' = logStore \cup new
            /\ emitted' = emitted \o
                   GetLogEvents(logStore', ValueOf(logFilterStream).startTime)
            /\ UNCHANGED <<diagnostics, pc, failed, failureMessage>>
       \/ /\ UNCHANGED <<logStore, emitted>>
          /\ IF OnFetchError = "logged"
             THEN /\ diagnostics' =
                        Append(diagnostics, CallsOf("GetLogEvents", "tail") + 1)
                  /\ UNCHANGED <<pc, failed, failureMessage>>
             ELSE /\ Catch("GetLogEvents failed")
                  /\ UNCHANGED diagnostics
    /\ UNCHANGED <<inputVars, overrideContainerCommand, taskRequestParams, waiters,
                   runningWait, stoppedWait, taskArn, taskId, outputs, logFilterStream,
                   logOutput, describedTask, discoveryVars>>

NextTail == FetchLogEvents

SpecTail == InitTail /\ [][NextTail]_vars

\* ------------------------------------------------------------------------
\* Properties of the log path
\* ------------------------------------------------------------------------

IsFetch(k) == calls[k].op = "GetLogEvents"

TailerArmed == logFilterStream # undefined

\* C12: with tail-logs enabled and a log destination discovered, a log fetch
\* has been issued while the stopped-wait was polling: after the poll that
\* saw the task running and before the poll that saw it stopped.
C12_FetchesDuringStoppedWait ==
    (tailLogs /\ selectedContainer # 0) =>
        \E k \in 1..Len(calls) :
            /\ IsFetch(k)
            /\ \E i \in 1..(k - 1) : calls[i].phase = "running"
            /\ \E j \in (k + 1)..Len(calls) : calls[j].phase = "stopped"

\* C13: when main has ended with the tailer armed, a log fetch was made
\* after the last stopped-wait poll, and log-output was set after it.
C13_DrainsBeforeClose ==
    (TailerArmed /\ pc = "done") =>
        /\ \E k \in 1..Len(calls) :
              /\ IsFetch(k)
              /\ \A j \in 1..Len(calls) : calls[j].phase = "stopped" => j < k
        /\ outputs["log-output"] # undefined

Fetches == CallsOf("GetLogEvents", "tail")

SeenTimestamps == {emitted[k].timestamp : k \in 1..Len(emitted)}

AnsweredContainers == ContainersOf(ValueOf(taskDef))

HasAwsLogs(container) ==
    /\ container.logConfiguration # undefined
    /\ ValueOf(container.logConfiguration).logDriver = "awslogs"

NoLogConfiguration ==
    /\ taskDef # {}
    /\ \A k \in 1..Len(AnsweredContainers) :
          AnsweredContainers[k].logConfiguration = undefined

\* C16: with tail-logs enabled and a task definition none of whose
\* containers has a log configuration, the tailer is not armed, no log fetch
\* is issued, the log output is empty, no failure is reported for it, and
\* main goes on to the final describe, whose exit code alone decides.
C16_NoLogConfigurationNoTailer ==
    (tailLogs /\ NoLogConfiguration) =>
        /\ ~TailerArmed
        /\ selectedContainer = 0
        /\ \A k \in 1..Len(calls) : ~IsFetch(k)
        /\ logOutput = ""
        /\ pc \in {"describeTasks", "done"}
        /\ pc = "describeTasks" => ~failed
        /\ pc = "done" => describedTask # undefined /\ (failed <=> TaskExitFailed)

C16_Witness ==
    /\ tailLogs
    /\ NoLogConfiguration
    /\ Len(AnsweredContainers) >= 1
    /\ pc = "done"
    /\ describedTask # undefined
    /\ ValueOf(describedTask).exitCode = Some(0)
    /\ ~failed

\* C17: the stream the fetch function is created for is the one discovered:
\* its name is the selected container's stream prefix, the container name
\* and the task id, joined with '/'.
C17_StreamNameDiscovered ==
    (TailerArmed /\ selectedContainer # 0) =>
        ValueOf(logFilterStream).logStreamName =
            LogStreamName(AnsweredContainers[selectedContainer], ValueOf(taskId))

\* C18: discovery selects at most one container and arms the tailer for it:
\* with an override container name, the container of that name if it has an
\* awslogs configuration, and no container otherwise, whatever the others
\* have; without one, the first container in definition order that has an
\* awslogs configuration; no container after the selected one is examined.
C18_SelectsOneContainer ==
    taskDef # {} =>
        LET k == selectedContainer IN
        /\ (k # 0) <=> TailerArmed
        /\ k # 0 =>
              /\ k \in 1..Len(AnsweredContainers)
              /\ HasAwsLogs(AnsweredContainers[k])
              /\ examined = k
              /\ overrideContainer # "" => AnsweredContainers[k].name = overrideContainer
              /\ overrideContainer = "" =>
                    \A j \in 1..(k - 1) : ~HasAwsLogs(AnsweredContainers[j])
        /\ k = 0 =>
              /\ examined = Len(AnsweredContainers)
              /\ \A j \in 1..Len(AnsweredContainers) :
                    (overrideContainer = "" \/ AnsweredContainers[j].name = overrideContainer)
                        => ~HasAwsLogs(AnsweredContainers[j])

\* the override container is the second of three awslogs containers
C18_Witness ==
    /\ taskDef # {}
    /\ overrideContainer = "app"
    /\ Len(AnsweredContainers) = 3
    /\ HasAwsLogs(AnsweredContainers[1])
    /\ selectedContainer = 2
    /\ examined = 2
    /\ TailerArmed

FairSpec == Spec /\ WF_vars(Next)

\* C19: every run reaches its end, and at no time has a wait made more than
\* maxAttempts polls.
C19_TerminatesWithinBudget ==
    /\ <>(pc = "done")
    /\ [](/\ Polls("running") <= taskStoppedWaitForMaxAttempts
          /\ Polls("stopped") <= taskStoppedWaitForMaxAttempts)

\* both waits used their whole budget
C19_Witness ==
    /\ pc = "done"
    /\ taskStoppedWaitForMaxAttempts >= 2
    /\ Polls("running") = taskStoppedWaitForMaxAttempts
    /\ Polls("stopped") = taskStoppedWaitForMaxAttempts

\* C20: without tail-logs there is no task-definition lookup and no log
\* fetch, the tailer is never armed, log-output is never set, and the run
\* ends as the task's behaviour alone decides: task-arn and task-id set when
\* the launch returned a task, failure exactly on a failed launch, a wait
\* timeout or a nonzero or absent exit code (as in C16 for a task definition
\* without log configuration).
C20_NoTailLogsNoLogPath ==
    ~tailLogs =>
        /\ \A k \in 1..Len(calls) :
              calls[k].op # "DescribeTaskDefinition" /\ ~IsFetch(k)
        /\ taskDef = {}
        /\ ~TailerArmed
        /\ logOutput = ""
        /\ outputs["log-output"] = undefined
        /\ pc = "done" =>
              /\ failed <=> \/ LaunchFailed
                            \/ runningWait = "timeout"
                            \/ stoppedWait = "timeout"
                            \/ TaskExitFailed
              /\ taskArn # undefined =>
                    outputs["task-arn"] # undefined /\ outputs["task-id"] # undefined

C20_Witness ==
    /\ ~tailLogs
    /\ pc = "done"
    /\ stoppedWait = "ok"
    /\ describedTask # undefined
    /\ ~failed

====
